---- MODULE Spec2Model ----
(***************************************************************************)
(* Model of mitmproxy/rewrite_to_local/main.py: a mitmproxy addon whose    *)
(* request() hook rewrites requests for a staging host and path prefix to  *)
(* a local endpoint.                                                       *)
(*                                                                         *)
(* Strings the code slices or parses (paths, the LOCAL_PORT text) are      *)
(* sequences of one-character strings; strings it only compares (hosts,    *)
(* methods, schemes) are TLA+ strings.  A header value "h" or "h:p" is the  *)
(* sequence of its colon-separated parts, <<h>> or <<h, p>>.               *)
(* request() is modelled one statement per step, so that invocations on    *)
(* different flows interleave and so that a statement that raises leaves   *)
(* the flow as the statements before it wrote it.                          *)
(***************************************************************************)
EXTENDS Integers, Sequences, FiniteSets, TLC

VARIABLES env, phase, cfg, pc, flow, orig, trimmed_path, branch, log

vars == <<env, phase, cfg, pc, flow, orig, trimmed_path, branch, log>>

(* ------------------------------ bounds --------------------------------- *)

\* longest text appended to a path head when enumerating request paths
MaxSuffixLen == 2
\* number of flows that can be in flight at once
MaxFlows == 2

Flows == 1..MaxFlows

(* --------------------------- string helpers ---------------------------- *)

\* s[i:] of Python, for 0 <= i
SliceFrom(s, i) == SubSeq(s, i + 1, Len(s))

\* str.startswith
startswith(s, p) == Len(s) >= Len(p) /\ SubSeq(s, 1, Len(p)) = p

Digits == {"0", "1", "2", "3", "4", "5", "6", "7", "8", "9"}

DigitVal(c) ==
    CASE c = "0" -> 0 [] c = "1" -> 1 [] c = "2" -> 2 [] c = "3" -> 3
      [] c = "4" -> 4 [] c = "5" -> 5 [] c = "6" -> 6 [] c = "7" -> 7
      [] c = "8" -> 8 [] c = "9" -> 9

\* int(text) raises ValueError unless text is a decimal numeral
IntParses(s) == Len(s) > 0 /\ \A i \in 1..Len(s) : s[i] \in Digits

RECURSIVE int(_)
int(s) == IF s = <<>> THEN 0
          ELSE 10 * int(SubSeq(s, 1, Len(s) - 1)) + DigitVal(s[Len(s)])

(* --------------------------- configuration ----------------------------- *)

\* os.getenv(name, default): an environment entry is <<>> when unset and
\* <<value>> when set
getenv(entry, default) == IF entry = <<>> THEN default ELSE entry[1]

STAGING_HOST_DEFAULT == "staging.api.example.com"
LOCAL_ADDRESS_DEFAULT == "127.0.0.1"
LOCAL_PORT_DEFAULT == <<"5", "0", "0", "0">>

MATCH_PREFIX ==
    <<"/", "s", "t", "g", "/", "v", "1", "/",
      "u", "b", "a", "h", "-", "i", "z", "i", "n", "/">>

TARGET_SCHEME == "http"

\* the module-level assignments; the port is parsed with int()
ModuleConfig(e) ==
    [STAGING_HOST  |-> getenv(e.STAGING_HOST, STAGING_HOST_DEFAULT),
     LOCAL_ADDRESS |-> getenv(e.LOCAL_ADDRESS, LOCAL_ADDRESS_DEFAULT),
     LOCAL_PORT    |-> int(getenv(e.LOCAL_PORT, LOCAL_PORT_DEFAULT))]

\* importing the module raises ValueError when int() cannot parse the port
ImportRaises(e) == ~IntParses(getenv(e.LOCAL_PORT, LOCAL_PORT_DEFAULT))

NoConfig == [STAGING_HOST |-> "", LOCAL_ADDRESS |-> "", LOCAL_PORT |-> -1]

(* ------------------------ the request object --------------------------- *)

\* header names compare case-insensitively
KeyLower(k) == IF k = "Host" THEN "host" ELSE k

HeaderIndexes(headers, key) ==
    {i \in 1..Len(headers) : KeyLower(headers[i].name) = KeyLower(key)}

HasHeader(headers, key) == HeaderIndexes(headers, key) # {}

Min(S) == CHOOSE x \in S : \A y \in S : x <= y

GetHeader(headers, key) == headers[Min(HeaderIndexes(headers, key))].value

RECURSIVE DropHeader(_, _)
DropHeader(headers, key) ==
    IF headers = <<>> THEN <<>>
    ELSE IF KeyLower(Head(headers).name) = KeyLower(key)
         THEN DropHeader(Tail(headers), key)
         ELSE <<Head(headers)>> \o DropHeader(Tail(headers), key)

\* headers[key] = value: the first field of that name keeps its spelling and
\* takes the value, later ones are dropped; a missing field is appended
SetHeader(headers, key, value) ==
    IF HasHeader(headers, key)
    THEN LET i == Min(HeaderIndexes(headers, key))
         IN  SubSeq(headers, 1, i - 1)
               \o <<[name |-> headers[i].name, value |-> value]>>
               \o DropHeader(SubSeq(headers, i + 1, Len(headers)), key)
    ELSE Append(headers, [name |-> key, value |-> value])

DefaultPort(scheme) == IF scheme = "http" THEN 80 ELSE 443

\* "host" when the port is the scheme's default, else "host:port"
hostport(scheme, host, port) ==
    IF DefaultPort(scheme) = port THEN <<host>> ELSE <<host, port>>

\* req.pretty_host of an HTTP/1 request: the host part of the Host header
\* when there is one, else req.host
pretty_host(req) ==
    IF HasHeader(req.headers, "Host")
    THEN GetHeader(req.headers, "Host")[1]
    ELSE req.host

\* req.url
url(req) ==
    [scheme |-> req.scheme,
     authority |-> hostport(req.scheme, req.host, req.port),
     path |-> req.path]

\* the host and port setters rewrite an existing Host header
UpdateHostHeader(req) ==
    IF HasHeader(req.headers, "Host")
    THEN [req EXCEPT !.headers =
             SetHeader(@, "Host", hostport(req.scheme, req.host, req.port))]
    ELSE req

SetPath(req, p) == [req EXCEPT !.path = p]
SetHost(req, h) == UpdateHostHeader([req EXCEPT !.host = h])
SetPort(req, p) == UpdateHostHeader([req EXCEPT !.port = p])
\* faulty variant: the scheme assignment is missing
SetSchemeSkipped(req, s) == req
SetScheme(req, s) == [req EXCEPT !.scheme = s]
\* faulty variant: the Host header is left as the host and port setters wrote it
SetHostHeaderSkipped(req, v) == req
SetHostHeader(req, v) == [req EXCEPT !.headers = SetHeader(@, "Host", <<v>>)]

\* faulty variant: the condition forgets the path prefix
MatchesHostOnly(req) == pretty_host(req) = cfg.STAGING_HOST

\* the condition of the if statement
Matches(req) ==
    /\ pretty_host(req) = cfg.STAGING_HOST
    /\ startswith(req.path, MATCH_PREFIX)

\* faulty variant: the slice starts at len(MATCH_PREFIX) and drops the slash
TrimPrefixOffByOne(path) == SliceFrom(path, Len(MATCH_PREFIX))

\* trimmed_path
TrimPrefix(path) == SliceFrom(path, Len(MATCH_PREFIX) - 1)

(* ------------------------------ inputs --------------------------------- *)

EnvStagingHost == {<<>>, <<"localhost">>}
EnvLocalAddress == {<<>>, <<"localhost">>}
EnvLocalPort == {<<>>, <<(<<"0">>)>>, <<(<<"8", "0">>)>>,
                 <<(<<"6", "5", "5", "3", "6">>)>>, <<(<<"x">>)>>}

Envs == [STAGING_HOST : EnvStagingHost,
         LOCAL_ADDRESS : EnvLocalAddress,
         LOCAL_PORT : EnvLocalPort]

ConcEnvs == [STAGING_HOST : {<<>>},
             LOCAL_ADDRESS : {<<>>},
             LOCAL_PORT : {<<>>, <<(<<"8", "0">>)>>}]

UPPER_PREFIX ==
    <<"/", "S", "T", "G", "/", "V", "1", "/",
      "U", "B", "A", "H", "-", "I", "Z", "I", "N", "/">>

PathHeads == {MATCH_PREFIX, UPPER_PREFIX,
              SubSeq(MATCH_PREFIX, 1, Len(MATCH_PREFIX) - 1), <<"/">>}

Suffixes == UNION {[1..n -> {"a", "/"}] : n \in 0..MaxSuffixLen}

Paths == {h \o t : h \in PathHeads, t \in Suffixes}

Hosts == {"staging.api.example.com", "STAGING.API.EXAMPLE.COM", "localhost"}

HeaderMaps ==
    {<<>>}
      \cup {<<[name |-> "Host", value |-> <<h>>]>> : h \in Hosts}
      \cup {<<[name |-> "host", value |-> <<"staging.api.example.com", 8443>>]>>,
            <<[name |-> "Accept", value |-> <<"*/*">>],
              [name |-> "Host", value |-> <<"staging.api.example.com">>]>>}

Requests == [method : {"GET", "POST"}, scheme : {"http", "https"},
             host : Hosts, port : {80, 443}, path : Paths,
             headers : HeaderMaps]

ConcRequests ==
    [method : {"GET"}, scheme : {"http", "https"},
     host : {"staging.api.example.com"}, port : {443},
     path : {MATCH_PREFIX \o <<"a">>, <<"/", "a">>},
     headers : {<<>>,
                <<[name |-> "Host", value |-> <<"staging.api.example.com">>]>>,
                <<[name |-> "Host", value |-> <<"localhost">>]>>}]

NoRequest == [method |-> "", scheme |-> "", host |-> "", port |-> -1,
              path |-> <<>>, headers |-> <<>>]

(* ------------------------------- state --------------------------------- *)

\* the state once the module has been imported under environment e
Imported(e) ==
    /\ env = e
    /\ phase = IF ImportRaises(e) THEN "import_failed" ELSE "imported"
    /\ cfg = IF ImportRaises(e) THEN NoConfig ELSE ModuleConfig(e)
    /\ pc = [f \in Flows |-> "idle"]
    /\ flow = [f \in Flows |-> NoRequest]
    /\ orig = [f \in Flows |-> NoRequest]
    /\ trimmed_path = [f \in Flows |-> <<>>]
    /\ branch = [f \in Flows |-> "none"]
    /\ log = <<>>

Init == \E e \in Envs : Imported(e)

InitConc == \E e \in ConcEnvs : Imported(e)

(* ------------------------------ actions -------------------------------- *)

\* load(loader)
Load ==
    /\ phase = "imported"
    /\ phase' = "serving"
    /\ log' = Append(log, [event |-> "load", call |-> 0,
                           staging |-> cfg.STAGING_HOST,
                           target |-> <<cfg.LOCAL_ADDRESS, cfg.LOCAL_PORT>>])
    /\ UNCHANGED <<env, cfg, pc, flow, orig, trimmed_path, branch>>

\* the proxy hands flow f, holding a request of `requests`, to request()
Receive(f, requests) ==
    /\ phase = "serving"
    /\ pc[f] = "idle"
    /\ \E r \in requests :
          /\ flow' = [flow EXCEPT ![f] = r]
          /\ orig' = [orig EXCEPT ![f] = r]
    /\ pc' = [pc EXCEPT ![f] = "l25"]
    /\ UNCHANGED <<env, phase, cfg, trimmed_path, branch, log>>

\* faulty variant: every invocation works on one shared request object
ReqAliased(f) == 1

\* req = flow.request: the request object invocation f works on
Req(f) == f

\* if req.pretty_host == STAGING_HOST and req.path.startswith(MATCH_PREFIX)
If(f) ==
    /\ pc[f] = "l25"
    /\ IF Matches(flow[Req(f)])
       THEN /\ pc' = [pc EXCEPT ![f] = "l28"]
            /\ branch' = [branch EXCEPT ![f] = "rewrite"]
       ELSE /\ pc' = [pc EXCEPT ![f] = "l38"]
            /\ branch' = [branch EXCEPT ![f] = "ignore"]
    /\ UNCHANGED <<env, phase, cfg, flow, orig, trimmed_path, log>>

\* trimmed_path = req.path[len(MATCH_PREFIX)-1:]
Trim(f) ==
    /\ pc[f] = "l28"
    /\ trimmed_path' = [trimmed_path EXCEPT ![f] = TrimPrefix(flow[Req(f)].path)]
    /\ pc' = [pc EXCEPT ![f] = "l29"]
    /\ UNCHANGED <<env, phase, cfg, flow, orig, branch, log>>

\* one assignment to a field of req, at pc `at`, leaving pc at `to`
Assign(f, at, to, new) ==
    /\ pc[f] = at
    /\ flow' = [flow EXCEPT ![Req(f)] = new]
    /\ pc' = [pc EXCEPT ![f] = to]
    /\ UNCHANGED <<env, phase, cfg, orig, trimmed_path, branch, log>>

\* req.path = trimmed_path
AssignPath(f) ==
    Assign(f, "l29", "l30", SetPath(flow[Req(f)], trimmed_path[f]))

\* req.host = LOCAL_ADDRESS
AssignHost(f) ==
    Assign(f, "l30", "l31", SetHost(flow[Req(f)], cfg.LOCAL_ADDRESS))

\* req.port = LOCAL_PORT
AssignPort(f) ==
    Assign(f, "l31", "l32", SetPort(flow[Req(f)], cfg.LOCAL_PORT))

\* req.scheme = "http"
AssignScheme(f) ==
    Assign(f, "l32", "l33", SetScheme(flow[Req(f)], TARGET_SCHEME))

\* req.headers["Host"] = STAGING_HOST
AssignHostHeader(f) ==
    Assign(f, "l33", "l34", SetHostHeader(flow[Req(f)], cfg.STAGING_HOST))

\* the record of the rewrite branch's ctx.log.info call
RewrittenRecord(f, req) ==
    [event |-> "rewrite", call |-> f, method |-> req.method,
     from_url |-> url(req),
     to_url |-> [scheme |-> "http",
                 authority |-> <<cfg.LOCAL_ADDRESS, cfg.LOCAL_PORT>>,
                 path |-> req.path]]

\* the record of the else branch's ctx.log.info call
IgnoredRecord(f, req) ==
    [event |-> "ignore", call |-> f, method |-> req.method,
     host |-> pretty_host(req), path |-> req.path]

\* faulty variant: the branch returns without logging
EmitSilent(f, at, rec) ==
    /\ pc[f] = at
    /\ pc' = [pc EXCEPT ![f] = "done"]
    /\ UNCHANGED <<env, phase, cfg, flow, orig, trimmed_path, branch, log>>

\* a ctx.log.info call at pc `at` that returns
Emit(f, at, rec) ==
    /\ pc[f] = at
    /\ log' = Append(log, rec)
    /\ pc' = [pc EXCEPT ![f] = "done"]
    /\ UNCHANGED <<env, phase, cfg, flow, orig, trimmed_path, branch>>

\* a ctx.log.info call at pc `at` that raises: request() has no handler, so
\* the exception leaves the hook with the flow as written so far
EmitRaises(f, at) ==
    /\ pc[f] = at
    /\ pc' = [pc EXCEPT ![f] = "raised"]
    /\ UNCHANGED <<env, phase, cfg, flow, orig, trimmed_path, branch, log>>

LogRewritten(f) == Emit(f, "l34", RewrittenRecord(f, flow[Req(f)]))
LogRewrittenRaises(f) == EmitRaises(f, "l34")
LogIgnored(f) == Emit(f, "l38", IgnoredRecord(f, flow[Req(f)]))
LogIgnoredRaises(f) == EmitRaises(f, "l38")

\* one statement of request() on flow f
Step(f) ==
    \/ If(f)
    \/ Trim(f)
    \/ AssignPath(f)
    \/ AssignHost(f)
    \/ AssignPort(f)
    \/ AssignScheme(f)
    \/ AssignHostHeader(f)
    \/ LogRewritten(f)
    \/ LogRewrittenRaises(f)
    \/ LogIgnored(f)
    \/ LogIgnoredRaises(f)

\* one request in flight, over the whole input space
Next ==
    \/ Load
    \/ Receive(1, Requests)
    \/ \E f \in Flows : Step(f)

Spec == Init /\ [][Next]_vars

\* several requests in flight, their invocations interleaved
NextConc ==
    \/ Load
    \/ \E f \in Flows : Receive(f, ConcRequests)
    \/ \E f \in Flows : Step(f)

SpecConc == InitConc /\ [][NextConc]_vars

(* ------------------------- claim vocabulary ---------------------------- *)

\* p is a prefix of s, character by character
HasPrefix(s, p) == Len(s) >= Len(p) /\ \A i \in 1..Len(p) : s[i] = p[i]

\* s without its first n characters
DropFirst(s, n) == [i \in 1..(Len(s) - n) |-> s[i + n]]

\* the request flow f held on arrival is one the rule is for
WasMatch(f) ==
    /\ pretty_host(orig[f]) = cfg.STAGING_HOST
    /\ HasPrefix(orig[f].path, MATCH_PREFIX)

Completed(f) == pc[f] = "done"

RecordsOf(f) == {i \in 1..Len(log) : log[i].call = f}

HostHeaderValues(req) ==
    {req.headers[i].value : i \in HeaderIndexes(req.headers, "Host")}

\* ASCII lower case, over the hosts of the model
Lower(h) == IF h = "STAGING.API.EXAMPLE.COM" THEN "staging.api.example.com" ELSE h

(* -------------------------------- claims ------------------------------- *)

\* C1: once request() has completed on a request for the staging host whose
\* path starts with MATCH_PREFIX, the path is the original path without its
\* first len(MATCH_PREFIX)-1 characters: a single "/" followed by what came
\* after the prefix.
C1_PrefixTrimmed ==
    \A f \in Flows :
        Completed(f) /\ WasMatch(f) =>
            /\ flow[f].path = DropFirst(orig[f].path, Len(MATCH_PREFIX) - 1)
            /\ flow[f].path = <<"/">> \o DropFirst(orig[f].path, Len(MATCH_PREFIX))

C1_Witness ==
    \E f \in Flows :
        /\ Completed(f) /\ WasMatch(f)
        /\ Len(orig[f].path) > Len(MATCH_PREFIX)
        /\ flow[f].path = <<"/", "a">>

\* C2: once request() has completed on a matching request, its host is
\* LOCAL_ADDRESS, its port LOCAL_PORT and its scheme "http", whatever they
\* were on arrival.
C2_Retargeted ==
    \A f \in Flows :
        Completed(f) /\ WasMatch(f) =>
            /\ flow[f].host = getenv(env.LOCAL_ADDRESS, LOCAL_ADDRESS_DEFAULT)
            /\ flow[f].port = cfg.LOCAL_PORT
            /\ flow[f].scheme = "http"

C2_Witness ==
    \E f \in Flows :
        /\ Completed(f) /\ WasMatch(f)
        /\ orig[f].scheme = "https" /\ orig[f].port = 443
        /\ orig[f].host = "staging.api.example.com"
        /\ flow[f].host = "127.0.0.1" /\ flow[f].port = 5000

\* C3 as stated: after a rewrite the Host header is the request's original
\* host and is never the target address.
C3_HostHeaderNeverTarget ==
    \A f \in Flows :
        Completed(f) /\ WasMatch(f) =>
            /\ HostHeaderValues(flow[f]) = {<<pretty_host(orig[f])>>}
            /\ <<cfg.LOCAL_ADDRESS>> \notin HostHeaderValues(flow[f])

\* C3, amended: after a rewrite the request has exactly one Host header
\* value, STAGING_HOST, which is the host the request was matched on; it
\* differs from the target address whenever STAGING_HOST and LOCAL_ADDRESS
\* are configured to differ.
C3_HostHeaderIsStagingHost ==
    \A f \in Flows :
        Completed(f) /\ WasMatch(f) =>
            /\ HostHeaderValues(flow[f]) = {<<pretty_host(orig[f])>>}
            /\ HostHeaderValues(flow[f]) =
                   {<<getenv(env.STAGING_HOST, STAGING_HOST_DEFAULT)>>}
            /\ cfg.STAGING_HOST # cfg.LOCAL_ADDRESS =>
                   <<cfg.LOCAL_ADDRESS>> \notin HostHeaderValues(flow[f])

C3_Witness ==
    \E f \in Flows :
        /\ Completed(f) /\ WasMatch(f)
        /\ HasHeader(orig[f].headers, "Host")
        /\ flow[f].host = "127.0.0.1"
        /\ HostHeaderValues(flow[f]) = {<<"staging.api.example.com">>}

\* C4: a request that is not for the staging host, or whose path does not
\* start with MATCH_PREFIX, is never changed by request(): host, port,
\* scheme, path and headers stay as they arrived.
C4_PassthroughUnchanged ==
    \A f \in Flows :
        pc[f] # "idle" /\ ~WasMatch(f) => flow[f] = orig[f]

C4_Witness ==
    \E f \in Flows :
        /\ Completed(f) /\ ~WasMatch(f)
        /\ pretty_host(orig[f]) = cfg.STAGING_HOST
        /\ flow[f] = orig[f]

\* C5: a completed call of request() has emitted exactly one log record, a
\* "rewrite" record if the request matched and an "ignore" record if it did
\* not.
C5_OneRecordPerCall ==
    \A f \in Flows :
        Completed(f) =>
            /\ Cardinality(RecordsOf(f)) = 1
            /\ \A i \in RecordsOf(f) :
                   log[i].event = IF WasMatch(f) THEN "rewrite" ELSE "ignore"

C5_Witness ==
    \E f \in Flows :
        /\ Completed(f) /\ ~WasMatch(f)
        /\ \E i \in RecordsOf(f) : log[i].event = "ignore"

\* C6: the "rewrite" record carries the URL the request arrived with as its
\* from-URL and the rewritten URL as its to-URL.
C6_RecordHasOriginalUrl ==
    \A i \in 1..Len(log) :
        log[i].event = "rewrite" =>
            /\ log[i].from_url = url(orig[log[i].call])
            /\ log[i].to_url.path = flow[log[i].call].path

\* C7: a call of request() that ended in an exception leaves the request as
\* it arrived.
C7_FailOpen ==
    \A f \in Flows : pc[f] = "raised" => flow[f] = orig[f]

\* C8: request() takes the rewrite branch exactly when the host equals
\* STAGING_HOST without regard to letter case and the path starts with
\* MATCH_PREFIX with regard to it.
C8_HostCaseInsensitive ==
    \A f \in Flows :
        branch[f] # "none" =>
            (branch[f] = "rewrite" <=>
                /\ Lower(pretty_host(orig[f])) = Lower(cfg.STAGING_HOST)
                /\ HasPrefix(orig[f].path, MATCH_PREFIX))

\* what one invocation alone makes of request r
LoneResult(r) ==
    IF pretty_host(r) = cfg.STAGING_HOST /\ HasPrefix(r.path, MATCH_PREFIX)
    THEN [r EXCEPT !.path = DropFirst(r.path, Len(MATCH_PREFIX) - 1),
                   !.host = cfg.LOCAL_ADDRESS,
                   !.port = cfg.LOCAL_PORT,
                   !.scheme = "http",
                   !.headers = SetHeader(@, "Host", <<cfg.STAGING_HOST>>)]
    ELSE r

\* C9: with invocations of request() interleaved, the configuration is
\* never written, a step changes no flow but the one whose invocation took
\* it, and a completed invocation leaves its request as a lone invocation
\* would.
C9_Isolation ==
    /\ [](\A f \in Flows : Completed(f) => flow[f] = LoneResult(orig[f]))
    /\ [][/\ cfg' = cfg
          /\ \A g \in Flows : pc'[g] = pc[g] => flow'[g] = flow[g]]_vars

C9_Witness ==
    \E f, g \in Flows :
        /\ f # g
        /\ Completed(f) /\ branch[f] = "rewrite"
        /\ pc[g] \in {"l30", "l31", "l32", "l33"}

\* C10: with a target port of 0 or above 65535 the configuration does not
\* load, so no call of request() ever completes a rewrite.
C10_BadPortNeverServes ==
    cfg.LOCAL_PORT \notin 1..65535 =>
        \A f \in Flows : ~(Completed(f) /\ branch[f] = "rewrite")

====
